---- MODULE Spec2Model ----
(***************************************************************************)
(* Request handling of the portfolio website's API: the shared MongoDB     *)
(* connection (libs/mongodb.ts), the route handlers under app/api          *)
(* (projects, projects/[projectId], sendForm, test, [...catchAll]) and     *)
(* the two collections they read and write; and the Projects component     *)
(* (components/Projects.tsx), which reads the project list from the API.   *)
(***************************************************************************)
EXTENDS Integers, Sequences, FiniteSets, Bags, TLC

VARIABLES
    env,            \* process.env.MONGODB_URI, fixed for the process lifetime
    moduleState,    \* evaluation of libs/mongodb.ts: "unloaded", "loaded", "failed"
    clientPromise,  \* the exported promise: "none", "pending", "fulfilled", "rejected"
    connectCalls,   \* number of client.connect() calls made so far
    projects,       \* the 'projects' collection, in store iteration order
    forms,          \* the 'forms' collection, in insertion order
    clock,          \* the server's clock, what new Date() reads
    pending,        \* bag of requests whose handler is suspended at `await clientPromise`
    last,           \* the most recently completed exchange (request, response, what the handler did)
    cards,          \* the Projects component's `projects` state: the list it renders as cards
    loading,        \* the Projects component's `loading` state
    getProjects,    \* where the component's getProjects() stands: "start", "fetch", "json", "done"
    response,       \* what the component's fetch('/api/projects') settled to
    formData,       \* the contact form's `formData` state: name, email, message
    errors,         \* the contact form's `errors` state: name, email, message, form
    successMessage, \* the contact form's `successMessage` state
    submitting,     \* bag of handleSubmit calls suspended at `await fetch('/api/sendForm')`
    submitted,      \* what the fetch of the handleSubmit call that ended last settled to
    params,         \* the detail page's params.projectId
    pageProject,    \* the detail page's `project` state: <<>> for null, or <<the project>>
    pageLoading,    \* the detail page's `loading` state
    fetching,       \* bag of getProjectInfo calls suspended at their fetch
    pageFetched     \* the getProjectInfo call that ended last: its projectId, what it got

\* The process that serves the API
server == <<env, moduleState, clientPromise, connectCalls, projects, forms, clock, pending, last>>

\* The components in the browser: the Projects list, the contact form, the detail page
projectsView == <<cards, loading, getProjects, response>>
contactView == <<formData, errors, successMessage, submitting, submitted>>
pageView == <<params, pageProject, pageLoading, fetching, pageFetched>>
view == <<projectsView, contactView, pageView>>

vars == <<server, view>>

----------------------------------------------------------------------------
(* Bounds of the model *)

MaxProjects == 2
MaxForms == 2
MaxClock == 1
MaxInFlight == 2
MaxSubmits == 2
MaxFetches == 2

----------------------------------------------------------------------------
(* JavaScript / JSON / BSON values: a kind, a text and a number *)

Val(kind, s, n) == [kind |-> kind, s |-> s, n |-> n]
Undefined == Val("undefined", "", 0)
JNull == Val("null", "", 0)
Str(s) == Val("string", s, 0)
Num(n) == Val("number", "", n)
StrList(s) == Val("array", s, 0)
DateAt(t) == Val("date", "", t)
ObjectId(hex) == Val("objectId", hex, 0)
GeneratedId(n) == Val("objectId", "generated", n)

\* JavaScript truthiness, as used by `!x`
Truthy(v) ==
    CASE v.kind \in {"undefined", "null"} -> FALSE
      [] v.kind = "string" -> v.s # ""
      [] v.kind = "number" -> v.n # 0
      [] OTHER -> TRUE

\* Own keys of an object: objects are total over their key universe, absent keys Undefined
Keys(o) == {k \in DOMAIN o : o[k] # Undefined}

\* String.prototype.toLowerCase on the identifiers in use
Lower(s) ==
    CASE s = "Portfolio" -> "portfolio"
      [] s = "Weather-App" -> "weather-app"
      [] OTHER -> s

----------------------------------------------------------------------------
(* Thrown values *)

Err(class, message) == [isError |-> TRUE, class |-> class, message |-> message]
NonError == [isError |-> FALSE, class |-> "", message |-> "thrown string"]
JsonSyntaxError == Err("SyntaxError", "Unexpected token in JSON")
NullTypeError == Err("TypeError", "Cannot read properties of null (reading 'name')")
ConnectError == Err("MongoServerSelectionError", "connect ECONNREFUSED")
DuplicateKeyError == Err("MongoServerError", "E11000 duplicate key error")
DbFailures == {Err("MongoNetworkError", "connection closed"), NonError}

\* Variant: the message property is read without the instanceof check
ErrorText_unchecked(e) == e.message

\* error instanceof Error ? error.message : 'Unknown error'
ErrorText(e) == IF e.isError THEN e.message ELSE "Unknown error"

----------------------------------------------------------------------------
(* Documents *)

FormKeys == {"_id", "name", "email", "message", "submittedDateTime", "company"}
ProjectKeys == {"_id", "id", "title", "shortDescription", "overview", "technologies",
                "github", "featured"}

EmptyForm == [k \in FormKeys |-> Undefined]

TestObjectId == ObjectId("67041a43daae89a8bdbd41ed")

ProjectDoc(oid, id, extra) ==
    [_id |-> oid, id |-> Str(id), title |-> Str("title of " \o id),
     shortDescription |-> Str("short"), overview |-> Str("overview"),
     technologies |-> StrList("Next.js,MongoDB"), github |-> Str("https://github.com/x/" \o id),
     featured |-> extra]

\* Seeded out of band; every document has the Project fields, some carry more
Seed ==
    << ProjectDoc(TestObjectId, "portfolio", Undefined),
       ProjectDoc(ObjectId("67041a43daae89a8bdbd41ee"), "weather-app", Str("yes")),
       ProjectDoc(ObjectId("67041a43daae89a8bdbd41ef"), "Portfolio", Undefined),
       ProjectDoc(ObjectId("67041a43daae89a8bdbd41f0"), "Weather-App", Str("no")) >>


----------------------------------------------------------------------------
(* Requests *)

Methods == {"GET", "POST", "PUT", "PATCH", "DELETE", "HEAD", "OPTIONS"}

JsonContentType == Str("application/json")
ContentTypes == {JsonContentType, JNull, Str("application/json; charset=utf-8"), Str("text/plain")}

\* A request body: text that does not parse, or the parsed JSON value
Body(kind, obj) == [kind |-> kind, obj |-> obj]
NoBody == Body("invalid", EmptyForm)
FormObj(name, email, message, sdt, id, company) ==
    [_id |-> id, name |-> name, email |-> email, message |-> message,
     submittedDateTime |-> sdt, company |-> company]

ValidBody == Body("object", FormObj(Str("A"), Str("a@b.com"), Str("Hello there, world"),
                                    Undefined, Undefined, Undefined))
LoadedBody == Body("object", FormObj(Str("A"), Str("a@b.com"), Str("Hello there, world"),
                                     Str("1999-01-01T00:00:00Z"), Str("client-id"), Str("ACME")))
NumericNameBody == Body("object", FormObj(Num(7), Str("a@b.com"), Str("Hello there, world"),
                                          Undefined, Undefined, Undefined))
Bodies ==
    { NoBody,
      Body("null", EmptyForm),
      Body("primitive", EmptyForm),
      Body("object", EmptyForm),
      Body("object", FormObj(Str("A"), Str("a@b.com"), Undefined, Undefined, Undefined, Undefined)),
      Body("object", FormObj(Str(""), Str("a@b.com"), Str("Hello"), Undefined, Undefined, Undefined)),
      Body("object", FormObj(Num(0), Str("a@b.com"), Str("Hello"), Undefined, Undefined, Undefined)),
      ValidBody, LoadedBody, NumericNameBody }

Req(path, method, contentType, body) ==
    [path |-> path, method |-> method, contentType |-> contentType, body |-> body]

ProjectIds == {"portfolio", "Portfolio", "weather-app", "does-not-exist"}

ReadPaths == {<<"projects">>, <<"test">>} \cup {<<"projects", id>> : id \in ProjectIds}
UnmatchedPaths == {<<"unknown">>, <<"projects", "portfolio", "edit">>}
FormPath == <<"sendForm">>

ReadRequests == {Req(p, m, JNull, NoBody) : p \in ReadPaths \cup UnmatchedPaths, m \in Methods}
FormPosts ==
    {Req(FormPath, "POST", JsonContentType, b) : b \in Bodies}
    \cup {Req(FormPath, "POST", ct, b) : ct \in ContentTypes, b \in {NoBody, ValidBody}}
FormRequests ==
    FormPosts \cup {Req(FormPath, m, JsonContentType, ValidBody) : m \in Methods \ {"POST"}}

----------------------------------------------------------------------------
(* Routing: the path selects the route module, the method its export *)

DbRoutes == {"projects", "projects/[projectId]", "sendForm", "test"}

\* Variant: every path under projects/ goes to the by-id route, however deep
Route_prefix(path) ==
    IF path = <<"projects">> THEN "projects"
    ELSE IF Len(path) >= 2 /\ path[1] = "projects" THEN "projects/[projectId]"
    ELSE IF path = <<"sendForm">> THEN "sendForm"
    ELSE IF path = <<"test">> THEN "test"
    ELSE "[...catchAll]"

Route(path) ==
    IF path = <<"projects">> THEN "projects"
    ELSE IF Len(path) = 2 /\ path[1] = "projects" THEN "projects/[projectId]"
    ELSE IF path = <<"sendForm">> THEN "sendForm"
    ELSE IF path = <<"test">> THEN "test"
    ELSE "[...catchAll]"

\* Variant: the sendForm module does not export OPTIONS
Exports_noOptions(route, method) ==
    CASE route \in {"projects", "projects/[projectId]", "test"} ->
            IF method = "GET" THEN "GET" ELSE "unsupportedMethodHandler"
      [] route = "sendForm" ->
            IF method = "POST" THEN "POST"
            ELSE IF method = "OPTIONS" THEN "none" ELSE "unsupportedMethodHandler"
      [] OTHER ->
            IF method \in {"GET", "POST", "PUT", "DELETE"} THEN method ELSE "none"

\* The function a route module exports under a method name, "none" when it exports nothing
Exports(route, method) ==
    CASE route \in {"projects", "projects/[projectId]", "test"} ->
            IF method = "GET" THEN "GET" ELSE "unsupportedMethodHandler"
      [] route = "sendForm" ->
            IF method = "POST" THEN "POST" ELSE "unsupportedMethodHandler"
      [] OTHER ->
            IF method \in {"GET", "POST", "PUT", "DELETE"} THEN method ELSE "none"

\* Route modules that import clientPromise from libs/mongodb
ImportsClientPromise(route) == route \in DbRoutes

----------------------------------------------------------------------------
(* Responses: NextResponse.json(body, {status}) *)

Resp(status, json, text, error, items) ==
    [status |-> status, json |-> json, text |-> text, error |-> error, items |-> items]
NoResponse == Resp(0, "none", "", "", <<>>)

\* A completed exchange: the request, the response, the export that ran and what it did
Exchange(req, resp, handler, did) ==
    [req |-> req, resp |-> resp, handler |-> handler, did |-> did]

----------------------------------------------------------------------------
(* libs/mongodb.ts: evaluated once; throws without a URI, else calls connect() *)

\* Variant: every importing route module evaluates its own copy of the module
ModuleNotYetEvaluated_perImport(state) == state \in {"unloaded", "loaded"}

\* The module system evaluates the module only while it has not been evaluated
ModuleNotYetEvaluated(state) == state = "unloaded"

\* Variant: the URI check is missing, connect() is called whatever the environment
ModuleEvaluation_unchecked(uri) == [state |-> "loaded", connects |-> 1, promise |-> "pending"]

\* The result of evaluating the module body under the given MONGODB_URI
ModuleEvaluation(uri) ==
    IF ~Truthy(uri)
    THEN [state |-> "failed", connects |-> 0, promise |-> "none"]
    ELSE [state |-> "loaded", connects |-> 1, promise |-> "pending"]

\* `await clientPromise` resumes once the promise has settled
Settled(promise) == promise \in {"fulfilled", "rejected"}

\* The outcome of one database call on a connected client: it succeeds or throws
NoFault == [isError |-> FALSE, class |-> "none", message |-> ""]
Faults == {NoFault} \cup DbFailures

\* A SyntaxError thrown inside the try block by something other than request.json()
ThrownSyntaxError == Err("SyntaxError", "Unexpected end of input")
AnyFaults == Faults \cup {ThrownSyntaxError}

\* What a handler did: whether it called request.json(), the state in which it found
\* clientPromise when its await resumed ("none": it never awaited), the database calls
\* it issued, and the failure the connection or the call met with
Did(parsed, promise, fault) ==
    [parsed |-> parsed,
     awaited |-> promise # "none",
     observed |-> promise,
     dbOps |-> IF promise = "fulfilled" THEN 1 ELSE 0,
     fault |-> IF promise = "rejected" THEN ConnectError ELSE fault]
Nothing == Did(FALSE, "none", NoFault)
NoExchange == Exchange(Req(<<>>, "GET", JNull, NoBody), NoResponse, "", Nothing)

----------------------------------------------------------------------------
(* Collection operations of the MongoDB driver, as the handlers call them *)

First(S) == CHOOSE i \in S : \A j \in S : i <= j

\* find({}).toArray()
FindAll(coll) == coll

\* Variant: the identifier is matched without regard to letter case
FindOneById_ignoreCase(coll, projectId) ==
    LET hits == {i \in 1..Len(coll) : Lower(coll[i].id.s) = Lower(projectId)}
    IN IF hits = {} THEN <<>> ELSE << [coll[First(hits)] EXCEPT !._id = Undefined] >>

\* findOne({ id: projectId }, { projection: { _id: 0 } }): zero or one document
FindOneById(coll, projectId) ==
    LET hits == {i \in 1..Len(coll) : coll[i].id = Str(projectId)}
    IN IF hits = {} THEN <<>> ELSE << [coll[First(hits)] EXCEPT !._id = Undefined] >>

\* findOne({ _id: new ObjectId(hex) }): zero or one document, no projection
FindOneByObjectId(coll, oid) ==
    LET hits == {i \in 1..Len(coll) : coll[i]._id = oid}
    IN IF hits = {} THEN <<>> ELSE << coll[First(hits)] >>

\* Variant: a document whose _id is already stored replaces the stored one
InsertOne_replace(coll, doc) ==
    LET d == IF doc._id = Undefined
             THEN [doc EXCEPT !._id = GeneratedId(Len(coll) + 1)]
             ELSE doc
        same == {i \in 1..Len(coll) : coll[i]._id = d._id}
    IN IF same # {}
       THEN [ok |-> TRUE, coll |-> [coll EXCEPT ![First(same)] = d], error |-> NoFault]
       ELSE [ok |-> TRUE, coll |-> Append(coll, d), error |-> NoFault]

\* insertOne(doc): the driver generates _id when the document has none; _id is unique
InsertOne(coll, doc) ==
    LET d == IF doc._id = Undefined
             THEN [doc EXCEPT !._id = GeneratedId(Len(coll) + 1)]
             ELSE doc
    IN IF \E i \in 1..Len(coll) : coll[i]._id = d._id
       THEN [ok |-> FALSE, coll |-> coll, error |-> DuplicateKeyError]
       ELSE [ok |-> TRUE, coll |-> Append(coll, d), error |-> NoFault]

----------------------------------------------------------------------------
(* Responders without database access *)

\* NextResponse.json("Methods not implemented", { status: 405 })
UnsupportedMethodResponse == Resp(405, "string", "Methods not implemented", "", <<>>)

\* NextResponse.json({ message: 'No Route Found' }, { status: 404 })
NoRouteResponse == Resp(404, "object", "No Route Found", "", <<>>)

----------------------------------------------------------------------------
(* GET /api/projects *)

PublicFields == {"id", "title", "shortDescription", "overview", "technologies", "github"}

\* Variant: the stored document is passed through with only _id removed
ToProject_passThrough(project) == [project EXCEPT !._id = Undefined]

\* result.map((project) => ({ id: project.id, ... })): the six fields, nothing else
ToProject(project) ==
    [k \in ProjectKeys |-> IF k \in PublicFields THEN project[k] ELSE Undefined]

ProjectsCatch(e) == Resp(500, "object", "Error retrieving data", ErrorText(e), <<>>)

ProjectsAfterAwait(promise, fault, coll) ==
    IF promise = "rejected" THEN ProjectsCatch(ConnectError)
    ELSE IF fault # NoFault THEN ProjectsCatch(fault)
    ELSE LET result == FindAll(coll)
         IN Resp(200, "array", "", "", [i \in 1..Len(result) |-> ToProject(result[i])])

----------------------------------------------------------------------------
(* GET /api/projects/{projectId} *)

ProjectByIdCatch(e) == Resp(500, "object", "Error retrieving project data", ErrorText(e), <<>>)

ProjectByIdAfterAwait(promise, fault, coll, projectId) ==
    IF promise = "rejected" THEN ProjectByIdCatch(ConnectError)
    ELSE IF fault # NoFault THEN ProjectByIdCatch(fault)
    ELSE LET result == FindOneById(coll, projectId)
         IN IF result = <<>>
            THEN Resp(404, "object", "", "Project not found", <<>>)
            ELSE Resp(200, "object", "", "", result)

----------------------------------------------------------------------------
(* GET /api/test *)

TestCatch(e) == Resp(500, "object", "Error retrieving data", ErrorText(e), <<>>)

\* Variant: a lookup that finds nothing is answered 404, as the by-id endpoint does
TestAfterAwait_notFound(promise, fault, coll) ==
    IF promise = "rejected" THEN TestCatch(ConnectError)
    ELSE IF fault # NoFault THEN TestCatch(fault)
    ELSE LET result == FindOneByObjectId(coll, TestObjectId)
         IN IF result = <<>>
            THEN Resp(404, "object", "", "Project not found", <<>>)
            ELSE Resp(200, "object", "Data retrieved successfully", "", result)

TestAfterAwait(promise, fault, coll) ==
    IF promise = "rejected" THEN TestCatch(ConnectError)
    ELSE IF fault # NoFault THEN TestCatch(fault)
    ELSE Resp(200, "object", "Data retrieved successfully", "",
              FindOneByObjectId(coll, TestObjectId))

----------------------------------------------------------------------------
(* POST /api/sendForm *)

\* Variant: any media type that starts with application/json is accepted
ContentTypeAccepted_prefix(ct) ==
    ct \in {JsonContentType, Str("application/json; charset=utf-8")}

\* contentType !== "application/json"
ContentTypeAccepted(ct) == ct = JsonContentType

\* data.name on the parsed body: undefined on anything but an object that has the key
Field(body, k) == IF body.kind = "object" THEN body.obj[k] ELSE Undefined

\* !data.name || !data.email || !data.message
MissingRequired(body) ==
    \/ ~Truthy(Field(body, "name"))
    \/ ~Truthy(Field(body, "email"))
    \/ ~Truthy(Field(body, "message"))

\* Variant: the spread comes last, so a client-supplied submittedDateTime wins
SubmissionDoc_clientWins(data, now) ==
    IF data.submittedDateTime = Undefined
    THEN [data EXCEPT !.submittedDateTime = DateAt(now)]
    ELSE data

\* { ...data, submittedDateTime: new Date() }
SubmissionDoc(data, now) == [data EXCEPT !.submittedDateTime = DateAt(now)]

\* Variant: a body that does not parse is reported with the missing-fields message
FormCatch_sameMessage(e) ==
    IF e.isError /\ e.class = "SyntaxError"
    THEN Resp(400, "object", "Missing required fields: name, email, message.", "", <<>>)
    ELSE Resp(500, "object", "Error adding data ", ErrorText(e), <<>>)

\* Variant: the catch block handles SyntaxError only and rethrows anything else
FormCatch_rethrow(e) ==
    IF e.isError /\ e.class = "SyntaxError"
    THEN Resp(400, "object", "Invalid JSON format.", "", <<>>)
    ELSE NoResponse

\* The catch block: SyntaxError is reported as invalid JSON, anything else as a 500
FormCatch(e) ==
    IF e.isError /\ e.class = "SyntaxError"
    THEN Resp(400, "object", "Invalid JSON format.", "", <<>>)
    ELSE Resp(500, "object", "Error adding data ", ErrorText(e), <<>>)

\* The handler up to `await clientPromise`: a response, or suspension
FormBeforeAwait(req) ==
    IF ~ContentTypeAccepted(req.contentType)
    THEN [suspend |-> FALSE, parsed |-> FALSE,
          resp |-> Resp(400, "object", "Invalid Content-Type. Expected application/json.", "", <<>>)]
    ELSE IF req.body.kind = "invalid"
    THEN [suspend |-> FALSE, parsed |-> TRUE, resp |-> FormCatch(JsonSyntaxError)]
    ELSE IF req.body.kind = "null"
    THEN [suspend |-> FALSE, parsed |-> TRUE, resp |-> FormCatch(NullTypeError)]
    ELSE IF MissingRequired(req.body)
    THEN [suspend |-> FALSE, parsed |-> TRUE,
          resp |-> Resp(400, "object", "Missing required fields: name, email, message.", "", <<>>)]
    ELSE [suspend |-> TRUE, parsed |-> TRUE, resp |-> NoResponse]

\* The handler from `await clientPromise` on: the response and the collection afterwards
FormAfterAwait(promise, fault, coll, data, now) ==
    IF promise = "rejected" THEN [resp |-> FormCatch(ConnectError), coll |-> coll]
    ELSE IF fault # NoFault THEN [resp |-> FormCatch(fault), coll |-> coll]
    ELSE LET r == InsertOne(coll, SubmissionDoc(data, now))
         IN IF r.ok
            THEN [resp |-> Resp(201, "object", "Form submitted successfully", "", <<>>),
                  coll |-> r.coll]
            ELSE [resp |-> FormCatch(r.error), coll |-> coll]

----------------------------------------------------------------------------
(* The Projects component and the static list it falls back to *)

StaticProject(id, title) ==
    [_id |-> Undefined, id |-> Str(id), title |-> Str(title),
     shortDescription |-> Str("short"), overview |-> Str("overview"),
     technologies |-> StrList("Git,GitHub"), github |-> Str("https://github.com/Viraj5903"),
     featured |-> Undefined]

\* export const ProjectsInfo: readonly Project[]
ProjectsInfo ==
    << StaticProject("portfolio", "Portfolio Website"),
       StaticProject("cosmochat", "CosmoChat UI"),
       StaticProject("quantumbot", "QuantumBot Core"),
       StaticProject("professor-course-assignment-platform",
                     "Professor Course Assignment Platform"),
       StaticProject("taskops-api", "TaskOps API"),
       StaticProject("user-access-management-system", "User Access Management System"),
       StaticProject("mood-food", "Mood Food Project"),
       StaticProject("insurance-simulation", "Insurance Simulation Software") >>

\* What fetch('/api/projects') settled to: "none" yet, "rejected", or "resolved" to a Response
Fetched(outcome, resp) == [outcome |-> outcome, resp |-> resp]
NotFetched == Fetched("none", NoResponse)
NetworkError == Fetched("rejected", NoResponse)

\* response.ok
Ok(resp) == resp.status \in 200..299

\* Answers to GET /api/projects that this API's handler does not produce (a gateway or
\* another deployment in front of it): under 200 a JSON object and a body that is not
\* JSON, and a 404
ForeignResponses ==
    { Resp(200, "object", "maintenance", "", <<>>),
      Resp(200, "none", "", "", <<>>),
      Resp(404, "object", "No Route Found", "", <<>>) }

\* Variant: the parsed body is put into the state without the Array.isArray check
AfterJson_unchecked(resp) ==
    IF resp.json = "none" THEN ProjectsInfo
    ELSE resp.items

\* From `await response.json()` on: the list that setProjects receives
AfterJson(resp) ==
    IF resp.json = "none" THEN ProjectsInfo
    ELSE IF resp.json = "array" THEN resp.items
    ELSE ProjectsInfo

----------------------------------------------------------------------------
(* The project detail page *)

\* A getProjectInfo call: the projectId its closure holds, and whether it is the call of
\* the latest run of the effect (the code keeps no such mark)
Call(projectId, latest) == [projectId |-> projectId, latest |-> latest]

\* Variant: the static list is searched for the identifier as given
findProject_exact(id) ==
    LET hits == {i \in 1..Len(ProjectsInfo) : ProjectsInfo[i].id = Str(id)}
    IN IF hits = {} THEN <<>> ELSE << ProjectsInfo[First(hits)] >>

\* ProjectsInfo.find((project) => project.id === id.toLowerCase()) ?? null
findProject(id) ==
    LET hits == {i \in 1..Len(ProjectsInfo) : ProjectsInfo[i].id = Str(Lower(id))}
    IN IF hits = {} THEN <<>> ELSE << ProjectsInfo[First(hits)] >>

\* Answers to GET /api/projects/{projectId} that this API's handler does not produce:
\* under 200 a body that is not JSON, and a 502 of a gateway
ForeignPageResponses ==
    { Resp(200, "none", "", "", <<>>),
      Resp(502, "none", "", "", <<>>) }

\* What setProject receives once the fetch of getProjectInfo has settled: the parsed
\* body of an ok response, else (not ok, fetch rejected, json() rejected) the static project
ShownAfter(projectId, fetched) ==
    IF fetched.outcome = "resolved" /\ Ok(fetched.resp) /\ fetched.resp.json # "none"
    THEN fetched.resp.items
    ELSE findProject(projectId)

----------------------------------------------------------------------------
(* The contact form *)

FieldNames == {"name", "email", "message"}

\* What the user can type into the three inputs
Typed ==
    [name |-> {"", "A"}, email |-> {"", "a@b.com"}, message |-> {"", "Hi", "Hello there, world"}]

\* useState({ name: '', email: '', message: '' })
EmptyFormData == [name |-> "", email |-> "", message |-> ""]

\* useState({ name: '', email: '', message: '', form: '' })
NoErrors == [name |-> Str(""), email |-> Str(""), message |-> Str(""), form |-> Str("")]

\* An Error object: new Error(message), or what fetch and res.json() reject with
ErrorObject(message) == Val("error", message, 0)

\* /^[a-zA-Z0-9._%+-]+@[a-zA-Z0-9.-]+\.[a-zA-Z]{2,}$/.test(value), on the typed values
EmailPattern(value) == value \in {"a@b.com"}

validateField(name, value) ==
    CASE name = "name" -> IF value # "" THEN "" ELSE "Name is required."
      [] name = "email" -> IF EmailPattern(value) THEN "" ELSE "Email is invalid."
      [] name = "message" ->
            IF Len(value) >= 10 THEN "" ELSE "Message must be at least 10 characters."
      [] OTHER -> ""

\* validate(): the new errors object and whether every field passed
validate(data) ==
    [newErrors |-> [k \in FieldNames \cup {"form"} |->
                        IF k = "form" THEN Str("") ELSE Str(validateField(k, data[k]))],
     valid |-> \A k \in FieldNames : validateField(k, data[k]) = ""]

\* What fetch('/api/sendForm') can settle to: a rejection, the handler's 201, its 400
\* (a body without an error field), its 500 (with one), and a body that is not JSON
SubmitOutcomes ==
    { NetworkError,
      Fetched("resolved", Resp(201, "object", "Form submitted successfully", "", <<>>)),
      Fetched("resolved", Resp(400, "object", "Missing required fields: name, email, message.",
                               "", <<>>)),
      Fetched("resolved", FormCatch(ConnectError)),
      Fetched("resolved", Resp(502, "none", "", "", <<>>)) }

\* The value the catch block of handleSubmit receives when the fetch settled to o and
\* did not succeed: the rejection of fetch or of res.json(), or
\* new Error(error || 'Something went wrong')
Caught(o) ==
    IF o.outcome = "rejected" THEN ErrorObject("Failed to fetch")
    ELSE IF o.resp.json = "none" THEN ErrorObject("Unexpected token < in JSON")
    ELSE IF o.resp.error # "" THEN ErrorObject(o.resp.error)
    ELSE ErrorObject("Something went wrong")

\* setErrors({ ...errors, form: error as string }): the cast changes nothing at run time
FormError(closure, error) == [closure EXCEPT !.form = error]

----------------------------------------------------------------------------
(* Initial states *)

Environments == {Undefined, Str(""), Str("mongodb+srv://cluster0.example.mongodb.net")}
Stores == {SubSeq(Seed, 1, n) : n \in 0..MaxProjects}

\* The process before its first request
InitServer ==
    /\ env \in Environments
    /\ moduleState = "unloaded"
    /\ clientPromise = "none"
    /\ connectCalls = 0
    /\ projects \in Stores
    /\ forms = <<>>
    /\ clock = 0
    /\ pending = EmptyBag
    /\ last = NoExchange

\* The Projects component and the contact form as mounted
InitForms ==
    /\ cards = <<>>
    /\ loading = TRUE
    /\ getProjects = "start"
    /\ response = NotFetched
    /\ formData = EmptyFormData
    /\ errors = NoErrors
    /\ successMessage = ""
    /\ submitting = EmptyBag
    /\ submitted = NotFetched

\* The detail page as mounted at /projects/{id}: the effect has issued its fetch
InitPageAt(id) ==
    /\ params = id
    /\ pageProject = <<>>
    /\ pageLoading = TRUE
    /\ fetching = SetToBag({Call(id, TRUE)})
    /\ pageFetched = [projectId |-> id, fetched |-> NotFetched]

Init == InitServer /\ InitForms /\ InitPageAt("portfolio")

\* The detail page opened at any of the project paths
InitPage == InitServer /\ InitForms /\ (\E id \in ProjectIds : InitPageAt(id))

----------------------------------------------------------------------------
(* Steps of the process *)

\* First import of libs/mongodb.ts by a route module
LoadModule ==
    /\ ModuleNotYetEvaluated(moduleState)
    /\ LET m == ModuleEvaluation(env)
       IN /\ moduleState' = m.state
          /\ connectCalls' = connectCalls + m.connects
          /\ clientPromise' = IF m.connects > 0 THEN m.promise ELSE clientPromise
    /\ UNCHANGED <<view, env, projects, forms, clock, pending, last>>

\* Variant: a failed connection attempt is made again
ConnectSettles_retrying ==
    /\ clientPromise \in {"pending", "rejected"}
    /\ connectCalls < 3
    /\ clientPromise' \in {"fulfilled", "rejected"}
    /\ connectCalls' = IF clientPromise = "rejected" THEN connectCalls + 1 ELSE connectCalls
    /\ UNCHANGED <<view, env, moduleState, projects, forms, clock, pending, last>>

\* client.connect() completes: the promise settles, once
ConnectSettles ==
    /\ clientPromise = "pending"
    /\ clientPromise' \in {"fulfilled", "rejected"}
    /\ UNCHANGED <<view, env, moduleState, connectCalls, projects, forms, clock, pending, last>>

\* Time passes
Tick ==
    /\ clock < MaxClock
    /\ clock' = clock + 1
    /\ UNCHANGED <<view, env, moduleState, clientPromise, connectCalls, projects, forms, pending,
                   last>>

\* The framework hands req to the export `handler` of route module `route`
Dispatched(req, route, handler) ==
    /\ Route(req.path) = route
    /\ Exports(route, req.method) = handler
    /\ ImportsClientPromise(route) => moduleState = "loaded"

Suspend(req) ==
    /\ BagCardinality(pending) < MaxInFlight
    /\ pending' = pending (+) SetToBag({req})
    /\ UNCHANGED <<view, env, moduleState, clientPromise, connectCalls, projects, forms, clock,
                   last>>

Suspended(req, route) ==
    /\ BagIn(req, pending)
    /\ Route(req.path) = route
    /\ Settled(clientPromise)

\* GET /api/projects, up to `await clientPromise`
GetProjects(req) ==
    /\ Dispatched(req, "projects", "GET")
    /\ Suspend(req)

\* GET /api/projects, from `await clientPromise` to the response
GetProjectsResume(req) ==
    /\ Suspended(req, "projects")
    /\ \E fault \in Faults :
         last' = Exchange(req, ProjectsAfterAwait(clientPromise, fault, projects),
                          "GET", Did(FALSE, clientPromise, fault))
    /\ pending' = pending (-) SetToBag({req})
    /\ UNCHANGED <<view, env, moduleState, clientPromise, connectCalls, projects, forms, clock>>

\* GET /api/projects/{projectId}, up to `await clientPromise`
GetProjectById(req) ==
    /\ Dispatched(req, "projects/[projectId]", "GET")
    /\ Suspend(req)

\* Variant: the lookup is a findOneAndDelete, which removes the document it returns
GetProjectByIdResume_consuming(req) ==
    /\ Suspended(req, "projects/[projectId]")
    /\ \E fault \in Faults :
         /\ last' = Exchange(req, ProjectByIdAfterAwait(clientPromise, fault, projects, req.path[2]),
                             "GET", Did(FALSE, clientPromise, fault))
         /\ projects' = IF clientPromise = "fulfilled" /\ fault = NoFault
                        THEN SelectSeq(projects, LAMBDA d : d.id # Str(req.path[2]))
                        ELSE projects
    /\ pending' = pending (-) SetToBag({req})
    /\ UNCHANGED <<view, env, moduleState, clientPromise, connectCalls, forms, clock>>

\* GET /api/projects/{projectId}, from `await clientPromise` to the response
GetProjectByIdResume(req) ==
    /\ Suspended(req, "projects/[projectId]")
    /\ \E fault \in Faults :
         last' = Exchange(req, ProjectByIdAfterAwait(clientPromise, fault, projects, req.path[2]),
                          "GET", Did(FALSE, clientPromise, fault))
    /\ pending' = pending (-) SetToBag({req})
    /\ UNCHANGED <<view, env, moduleState, clientPromise, connectCalls, projects, forms, clock>>

\* GET /api/test, up to `await clientPromise`
GetTest(req) ==
    /\ Dispatched(req, "test", "GET")
    /\ Suspend(req)

\* GET /api/test, from `await clientPromise` to the response
GetTestResume(req) ==
    /\ Suspended(req, "test")
    /\ \E fault \in Faults :
         last' = Exchange(req, TestAfterAwait(clientPromise, fault, projects),
                          "GET", Did(FALSE, clientPromise, fault))
    /\ pending' = pending (-) SetToBag({req})
    /\ UNCHANGED <<view, env, moduleState, clientPromise, connectCalls, projects, forms, clock>>

\* POST /api/sendForm, up to the first response or `await clientPromise`
PostSendForm(req) ==
    /\ Dispatched(req, "sendForm", "POST")
    /\ LET b == FormBeforeAwait(req)
       IN IF b.suspend
          THEN Suspend(req)
          ELSE /\ last' = Exchange(req, b.resp, "POST", Did(b.parsed, "none", NoFault))
               /\ UNCHANGED <<view, env, moduleState, clientPromise, connectCalls, projects,
                              forms, clock, pending>>

\* POST /api/sendForm, from `await clientPromise` to the response, where the insert
\* call meets one of the outcomes in F
FormResume(req, F) ==
    /\ Suspended(req, "sendForm")
    /\ \E fault \in F :
         LET a == FormAfterAwait(clientPromise, fault, forms, req.body.obj, clock)
         IN /\ Len(a.coll) <= MaxForms
            /\ forms' = a.coll
            /\ last' = Exchange(req, a.resp, "POST", Did(TRUE, clientPromise, fault))
    /\ pending' = pending (-) SetToBag({req})
    /\ UNCHANGED <<view, env, moduleState, clientPromise, connectCalls, projects, clock>>

\* The insert call succeeds, or fails as the driver's calls fail
PostSendFormResume(req) == FormResume(req, Faults)

\* The insert call succeeds, or throws a value of any class the catch block tells apart
PostSendFormResumeAnyError(req) == FormResume(req, AnyFaults)

\* Any other method on a defined route: the module's unsupportedMethodHandler
UnsupportedMethod(req) ==
    /\ \E route \in DbRoutes : Dispatched(req, route, "unsupportedMethodHandler")
    /\ last' = Exchange(req, UnsupportedMethodResponse, "unsupportedMethodHandler", Nothing)
    /\ UNCHANGED <<view, env, moduleState, clientPromise, connectCalls, projects, forms, clock,
                   pending>>

\* GET, POST, PUT or DELETE on a path no other route matches
CatchAll(req) ==
    /\ \E m \in {"GET", "POST", "PUT", "DELETE"} : Dispatched(req, "[...catchAll]", m)
    /\ last' = Exchange(req, NoRouteResponse, "catchAll." \o req.method, Nothing)
    /\ UNCHANGED <<view, env, moduleState, clientPromise, connectCalls, projects, forms, clock,
                   pending>>

\* No handler runs: the route module failed to load, or exports nothing for the method
NoHandler(req) ==
    /\ \/ ImportsClientPromise(Route(req.path)) /\ moduleState = "failed"
       \/ Exports(Route(req.path), req.method) = "none"
    /\ last' = Exchange(req, NoResponse, "none", Nothing)
    /\ UNCHANGED <<view, env, moduleState, clientPromise, connectCalls, projects, forms, clock,
                   pending>>

----------------------------------------------------------------------------
(* Steps of the Projects component *)

\* What the server answers to GET /api/projects in its present state
ServerAnswers ==
    IF moduleState = "failed" THEN {NoResponse}
    ELSE IF moduleState = "loaded" /\ Settled(clientPromise)
    THEN {ProjectsAfterAwait(clientPromise, fault, projects) : fault \in Faults}
    ELSE {}

\* useEffect on mount: getProjects() runs up to `await fetch('/api/projects')`
GetProjectsStart ==
    /\ getProjects = "start"
    /\ getProjects' = "fetch"
    /\ UNCHANGED <<cards, loading, response>>
    /\ UNCHANGED <<server, contactView, pageView>>

\* fetch rejects: catch sets the static list, finally clears loading
FetchRejects ==
    /\ getProjects = "fetch"
    /\ response' = NetworkError
    /\ cards' = ProjectsInfo
    /\ loading' = FALSE
    /\ getProjects' = "done"
    /\ UNCHANGED <<server, contactView, pageView>>

\* fetch resolves: a response that is not ok sets the static list and returns through
\* finally; an ok one goes on to `await response.json()`
FetchResolves ==
    /\ getProjects = "fetch"
    /\ \E r \in ServerAnswers \cup ForeignResponses :
         /\ response' = Fetched("resolved", r)
         /\ IF ~Ok(r)
            THEN /\ cards' = ProjectsInfo
                 /\ loading' = FALSE
                 /\ getProjects' = "done"
            ELSE /\ getProjects' = "json"
                 /\ UNCHANGED <<cards, loading>>
    /\ UNCHANGED <<server, contactView, pageView>>

\* response.json() settles: setProjects on an array, the catch's static list on a
\* body that does not parse or is not an array; finally clears loading
JsonSettles ==
    /\ getProjects = "json"
    /\ cards' = AfterJson(response.resp)
    /\ loading' = FALSE
    /\ getProjects' = "done"
    /\ UNCHANGED response
    /\ UNCHANGED <<server, contactView, pageView>>

----------------------------------------------------------------------------
(* Steps of the project detail page *)

\* What the server answers to GET /api/projects/{projectId} in its present state
PageAnswers(projectId) ==
    IF moduleState = "failed" THEN {NoResponse}
    ELSE IF moduleState = "loaded" /\ Settled(clientPromise)
    THEN {ProjectByIdAfterAwait(clientPromise, fault, projects, projectId) : fault \in Faults}
    ELSE {}

\* params.projectId changes: the component renders again and the effect, which depends
\* on [projectId], runs again and calls getProjectInfo up to its fetch. Nothing else is
\* set: `project` and `loading` keep their values, the earlier call keeps running
Navigate(id) ==
    /\ id # params
    /\ BagCardinality(fetching) < MaxFetches
    /\ params' = id
    /\ LET earlier == BagOfAll(LAMBDA c : Call(c.projectId, FALSE), fetching)
       IN fetching' = earlier (+) SetToBag({Call(id, TRUE)})
    /\ UNCHANGED <<pageProject, pageLoading, pageFetched>>
    /\ UNCHANGED <<server, projectsView, contactView>>

\* The rest of one getProjectInfo call, from its fetch settling: setProject or
\* findProject with the projectId of the call's closure, then finally setLoading(false)
GetProjectInfoSettles(call, fetched) ==
    /\ BagIn(call, fetching)
    /\ fetching' = fetching (-) SetToBag({call})
    /\ pageFetched' = [projectId |-> call.projectId, fetched |-> fetched]
    /\ pageProject' = ShownAfter(call.projectId, fetched)
    /\ pageLoading' = FALSE
    /\ UNCHANGED params
    /\ UNCHANGED <<server, projectsView, contactView>>

PageFetchRejects == \E call \in BagToSet(fetching) : GetProjectInfoSettles(call, NetworkError)

PageFetchResolves ==
    \E call \in BagToSet(fetching) :
        \E r \in PageAnswers(call.projectId) \cup ForeignPageResponses :
            GetProjectInfoSettles(call, Fetched("resolved", r))

----------------------------------------------------------------------------
(* Events of the contact form *)

\* onChange of the input `name`, with the value e.target.value
handleChange(name, value) ==
    /\ value # formData[name]
    /\ formData' = [formData EXCEPT ![name] = value]
    /\ errors' = [errors EXCEPT ![name] = Str("")]
    /\ successMessage' = ""
    /\ UNCHANGED <<submitting, submitted, server, projectsView, pageView>>

\* onBlur of the input `name`, whose value is the one in formData
handleBlur(name) ==
    /\ errors' = [errors EXCEPT ![name] = Str(validateField(name, formData[name]))]
    /\ successMessage' = ""
    /\ UNCHANGED <<formData, submitting, submitted, server, projectsView, pageView>>

\* onSubmit, up to the return after a failed validation or to `await fetch(...)`; the
\* suspended call keeps the `errors` of the render it was created in
handleSubmit ==
    /\ BagCardinality(submitting) < MaxSubmits
    /\ LET v == validate(formData)
       IN /\ successMessage' = ""
          /\ errors' = v.newErrors
          /\ submitting' = IF v.valid THEN submitting (+) SetToBag({errors}) ELSE submitting
    /\ UNCHANGED <<formData, submitted, server, projectsView, pageView>>

\* The fetch of a suspended handleSubmit settles: on an ok response the success message
\* is set and the fields are reset; otherwise (the fetch rejected, or the response is
\* not ok and its body was read for the error text) the catch block sets errors.form
handleSubmitResume ==
    \E closure \in BagToSet(submitting), o \in SubmitOutcomes :
        /\ submitting' = submitting (-) SetToBag({closure})
        /\ submitted' = o
        /\ IF o.outcome = "resolved" /\ Ok(o.resp)
           THEN /\ successMessage' = "Message sent successfully!"
                /\ formData' = EmptyFormData
                /\ UNCHANGED errors
           ELSE /\ errors' = FormError(closure, Caught(o))
                /\ UNCHANGED <<formData, successMessage>>
        /\ UNCHANGED <<server, projectsView, pageView>>

----------------------------------------------------------------------------
(* Specifications *)

Lifecycle == LoadModule \/ ConnectSettles

ReadTraffic(R) ==
    \E req \in R :
        \/ GetProjects(req) \/ GetProjectsResume(req)
        \/ GetProjectById(req) \/ GetProjectByIdResume(req)
        \/ GetTest(req) \/ GetTestResume(req)
        \/ CatchAll(req)

FormTraffic(R) ==
    \E req \in R : PostSendForm(req) \/ PostSendFormResume(req)

Unhandled(R) ==
    \E req \in R : UnsupportedMethod(req) \/ NoHandler(req)

\* The whole API: each handler of each route module, on one or two inputs, over the
\* fully seeded projects collection
ApiRequests ==
    {Req(p, m, JNull, NoBody) :
        p \in {<<"projects">>, <<"projects", "portfolio">>, <<"test">>}, m \in {"GET", "POST"}}
    \cup {Req(<<"unknown">>, m, JNull, NoBody) : m \in {"GET", "PATCH"}}
    \cup {Req(FormPath, m, JsonContentType, ValidBody) : m \in {"GET", "POST"}}
    \cup {Req(FormPath, "POST", JsonContentType, b) :
             b \in {LoadedBody, NoBody, Body("null", EmptyForm)}}
    \cup {Req(<<"projects", "does-not-exist">>, "GET", JNull, NoBody)}

InitApi == Init /\ projects = SubSeq(Seed, 1, MaxProjects)
Next == Lifecycle \/ Tick \/ ReadTraffic(ApiRequests) \/ FormTraffic(ApiRequests)
            \/ Unhandled(ApiRequests)
Spec == InitApi /\ [][Next]_vars

\* Every route under every method it does not implement
AllRequests == ReadRequests \cup FormRequests
NextVerbs == Lifecycle \/ Unhandled(AllRequests) \/ (\E req \in AllRequests : CatchAll(req))
SpecVerbs == Init /\ [][NextVerbs]_vars

\* The read endpoints and the fallback, over every read input
NextRead == Lifecycle \/ ReadTraffic(ReadRequests) \/ Unhandled(ReadRequests)
SpecRead == Init /\ [][NextRead]_vars

\* The form endpoint, over every form input and one fixed projects collection
InitForm == Init /\ projects = SubSeq(Seed, 1, 1)
NextForm == Lifecycle \/ Tick \/ FormTraffic(FormPosts) \/ (\E req \in FormPosts : NoHandler(req))
SpecForm == InitForm /\ [][NextForm]_vars

\* The form endpoint on a valid and on a malformed body, where the awaited calls may
\* throw a value of any class
AnyErrorPosts == {Req(FormPath, "POST", JsonContentType, b) : b \in {ValidBody, NoBody}}
NextFormAnyError ==
    Lifecycle \/ Tick
        \/ (\E req \in AnyErrorPosts : PostSendForm(req) \/ PostSendFormResumeAnyError(req))
SpecFormAnyError == InitForm /\ [][NextFormAnyError]_vars

\* The Projects component against the server in each state of its connection
NextView == Lifecycle \/ GetProjectsStart \/ FetchRejects \/ FetchResolves \/ JsonSettles
SpecView == Init /\ [][NextView]_vars

\* The contact form under every order of its events and every outcome of its requests
NextContact ==
    \/ \E name \in FieldNames : (\E value \in Typed[name] : handleChange(name, value))
    \/ \E name \in FieldNames : handleBlur(name)
    \/ handleSubmit
    \/ handleSubmitResume
SpecContact == Init /\ [][NextContact]_vars

\* The detail page under changes of its projectId, against the server in each state of
\* its connection
NextPage ==
    \/ Lifecycle
    \/ \E id \in ProjectIds : Navigate(id)
    \/ PageFetchRejects
    \/ PageFetchResolves
SpecPage == InitPage /\ [][NextPage]_vars

----------------------------------------------------------------------------
(* Properties *)

LastRoute == Route(last.req.path)
FormPosted == last.handler = "POST"
RequiredFields == {"name", "email", "message"}

\* A required field that the parsed body does not carry, or carries as ""
AbsentOrEmpty(body, k) == body.kind # "object" \/ body.obj[k] \in {Undefined, Str("")}

\* C1: POST /sendForm with the JSON content type and a body that parses: 400 'Missing
\* required fields' when name, email or message is missing or "", and 201 when all
\* three are present (unless the connection or the insert fails), for every body
\* that parses, null included.
C1_Claim ==
    (FormPosted /\ last.req.contentType = JsonContentType /\ last.req.body.kind # "invalid") =>
        IF \E k \in RequiredFields : AbsentOrEmpty(last.req.body, k)
        THEN /\ last.resp.status = 400
             /\ last.resp.text = "Missing required fields: name, email, message."
        ELSE last.resp.status = 201 \/ last.did.fault # NoFault

\* C2: whenever a document enters forms, it is appended and its submittedDateTime is
\* the server clock's value at that step, whatever submittedDateTime the body carried.
C2_Theorem ==
    [][forms' # forms =>
         /\ Len(forms') = Len(forms) + 1
         /\ SubSeq(forms', 1, Len(forms)) = forms
         /\ forms'[Len(forms')].submittedDateTime = DateAt(clock)]_vars

C2_Witness ==
    \E i \in 1..Len(forms) :
        /\ forms[i]._id = LoadedBody.obj._id
        /\ LoadedBody.obj.submittedDateTime # Undefined
        /\ forms[i].submittedDateTime = DateAt(1)

\* C3: every document in forms consists of name, email, message and the server's
\* submittedDateTime (under the store's own generated _id) and of nothing else the
\* body supplied.
C3_Claim ==
    \A i \in 1..Len(forms) :
        /\ Keys(forms[i]) = RequiredFields \cup {"submittedDateTime", "_id"}
        /\ forms[i]._id.kind = "objectId"

\* C4: a POST /sendForm whose Content-Type is not exactly application/json gets the
\* 400 'Invalid Content-Type' response, and the handler neither read the body nor
\* awaited the connection nor issued a database call.
C4_Theorem ==
    (FormPosted /\ last.req.contentType # JsonContentType) =>
        /\ last.resp.status = 400
        /\ last.resp.text = "Invalid Content-Type. Expected application/json."
        /\ ~last.did.parsed
        /\ ~last.did.awaited
        /\ last.did.dbOps = 0

C4_Witness ==
    /\ FormPosted
    /\ last.req.contentType = Str("application/json; charset=utf-8")
    /\ last.req.body = ValidBody
    /\ last.resp.status = 400
    /\ moduleState = "loaded"

\* C5: GET /projects/{projectId}, when the connection and the query do not fail: 200
\* with the stored fields minus _id when a stored project's id equals projectId
\* exactly, and 404 when none does, also when one differs only in letter case.
C5_Theorem ==
    (last.handler = "GET" /\ LastRoute = "projects/[projectId]" /\ last.did.fault = NoFault) =>
        LET stored == {i \in 1..Len(projects) : projects[i].id.s = last.req.path[2]}
        IN IF stored # {}
           THEN /\ last.resp.status = 200
                /\ Len(last.resp.items) = 1
                /\ \E i \in stored :
                     /\ Keys(last.resp.items[1]) = Keys(projects[i]) \ {"_id"}
                     /\ \A k \in Keys(last.resp.items[1]) :
                            last.resp.items[1][k] = projects[i][k]
           ELSE /\ last.resp.status = 404
                /\ last.resp.items = <<>>

C5_Witness ==
    /\ last.handler = "GET"
    /\ last.req.path = <<"projects", "Portfolio">>
    /\ \E i \in 1..Len(projects) : projects[i].id = Str("portfolio")
    /\ \A i \in 1..Len(projects) : projects[i].id # Str("Portfolio")
    /\ last.resp.status = 404

\* C6: GET /projects, when the connection and the query do not fail: 200 with an
\* array as long as the collection, element i holding exactly the six public fields
\* of stored document i.
C6_Theorem ==
    (last.handler = "GET" /\ LastRoute = "projects" /\ last.did.fault = NoFault) =>
        /\ last.resp.status = 200
        /\ last.resp.json = "array"
        /\ Len(last.resp.items) = Len(projects)
        /\ \A i \in 1..Len(projects) :
             /\ Keys(last.resp.items[i]) = PublicFields
             /\ \A k \in PublicFields : last.resp.items[i][k] = projects[i][k]

C6_Witness ==
    /\ last.handler = "GET"
    /\ LastRoute = "projects"
    /\ last.resp.status = 200
    /\ Len(last.resp.items) = 2
    /\ \E i \in 1..Len(projects) : "featured" \in Keys(projects[i])

\* C7: no document in a response of GET /projects, GET /projects/{projectId} or
\* GET /test carries _id.
C7_Claim ==
    (last.handler = "GET" /\ LastRoute \in {"projects", "projects/[projectId]", "test"}) =>
        \A i \in 1..Len(last.resp.items) : last.resp.items[i]._id = Undefined

\* C8: connect() is called at most once, exactly once from the moment the connection
\* module is loaded; every handler that awaited found the one promise in the state
\* it is in now, and answered 500 with the connection's error when it is rejected,
\* without a database call of its own.
C8_Theorem ==
    /\ connectCalls <= 1
    /\ (moduleState = "loaded") = (connectCalls = 1)
    /\ pending # EmptyBag => connectCalls = 1
    /\ last.did.awaited =>
         /\ connectCalls = 1
         /\ Settled(clientPromise)
         /\ last.did.observed = clientPromise
         /\ clientPromise = "rejected" =>
               /\ last.resp.status = 500
               /\ last.resp.error = ConnectError.message
               /\ last.did.dbOps = 0

C8_Witness ==
    /\ last.did.awaited
    /\ LastRoute = "sendForm"
    /\ \E req \in BagToSet(pending) : Route(req.path) = "projects"
    /\ connectCalls = 1
    /\ clientPromise = "rejected"

\* C9: without MONGODB_URI the connection module fails at load: connect() is never
\* called, no handler of a route module that imports it suspends or responds.
C9_Theorem ==
    ~Truthy(env) =>
        /\ connectCalls = 0
        /\ clientPromise = "none"
        /\ moduleState \in {"unloaded", "failed"}
        /\ pending = EmptyBag
        /\ (last.handler # "" /\ LastRoute \in DbRoutes) =>
              /\ last.handler = "none"
              /\ last.resp = NoResponse
              /\ ~last.did.awaited

C9_Witness ==
    /\ env = Undefined
    /\ moduleState = "failed"
    /\ LastRoute = "projects"
    /\ last.req.method = "GET"
    /\ last.handler = "none"

\* The method each defined route implements
ImplementedMethod(route) == IF route = "sendForm" THEN "POST" ELSE "GET"

\* C10: in a process whose connection module loads, a request to a defined route
\* under a method the route does not implement is answered by
\* unsupportedMethodHandler: 405 with the JSON string "Methods not implemented",
\* the same on every route, never the fallback's 404.
C10_Theorem ==
    (/\ last.handler # ""
     /\ Truthy(env)
     /\ LastRoute \in DbRoutes
     /\ last.req.method # ImplementedMethod(LastRoute)) =>
        /\ last.handler = "unsupportedMethodHandler"
        /\ last.resp.status = 405
        /\ last.resp.json = "string"
        /\ last.resp.text = "Methods not implemented"
        /\ last.resp # NoRouteResponse

C10_Witness ==
    /\ last.req.path = FormPath
    /\ last.req.method = "OPTIONS"
    /\ last.resp = UnsupportedMethodResponse

\* The methods the fallback module exports a handler for
FallbackMethods == {"GET", "POST", "PUT", "DELETE"}

\* C11: a GET, POST, PUT or DELETE on a path that matches no defined route is answered
\* 404 with the JSON object {message: 'No Route Found'}, and the handler neither
\* awaited the connection nor issued a database call, whether or not the connection
\* module could load.
C11_Theorem ==
    (/\ last.handler # ""
     /\ last.req.path \in UnmatchedPaths
     /\ last.req.method \in FallbackMethods) =>
        /\ last.resp.status = 404
        /\ last.resp.json = "object"
        /\ last.resp.text = "No Route Found"
        /\ last.resp.error = ""
        /\ ~last.did.awaited
        /\ last.did.dbOps = 0

C11_Witness ==
    /\ last.req.path = <<"projects", "portfolio", "edit">>
    /\ last.req.method = "DELETE"
    /\ last.resp.status = 404
    /\ moduleState = "failed"

\* C12: a request on a path that matches no defined route gets the 404 'No Route
\* Found' response under every method, PATCH, HEAD and OPTIONS included: the
\* response does not depend on the method.
C12_Claim ==
    (last.handler # "" /\ last.req.path \in UnmatchedPaths) =>
        /\ last.handler # "none"
        /\ last.resp = NoRouteResponse

\* C13: POST /sendForm answers 400 'Invalid JSON format.' when the body does not
\* parse, and the three client-input 400 responses (wrong content type, malformed
\* JSON, missing required field) carry pairwise distinct messages, each telling its
\* cause apart from the other two, none of them the message of the 500 response.
C13_Theorem ==
    FormPosted =>
        LET wrongType == last.req.contentType # JsonContentType
            malformed == ~wrongType /\ last.req.body.kind = "invalid"
        IN /\ malformed => (last.resp.status = 400 /\ last.resp.text = "Invalid JSON format.")
           /\ last.resp.status = 400 =>
                /\ (last.resp.text = "Invalid Content-Type. Expected application/json.")
                       <=> wrongType
                /\ (last.resp.text = "Invalid JSON format.") <=> malformed
                /\ (last.resp.text = "Missing required fields: name, email, message.")
                       <=> (~wrongType /\ ~malformed)
                /\ last.resp.text # "Error adding data "
           /\ last.resp.status = 500 =>
                /\ last.resp.text = "Error adding data "
                /\ last.resp.text \notin
                       {"Invalid Content-Type. Expected application/json.",
                        "Invalid JSON format.",
                        "Missing required fields: name, email, message."}

C13_Witness ==
    /\ FormPosted
    /\ last.req.contentType = JsonContentType
    /\ last.req.body.kind = "invalid"
    /\ last.did.parsed
    /\ last.resp.status = 400
    /\ last.resp.text = "Invalid JSON format."

\* The value the last handler's await or database call threw
Thrown == IF last.did.fault # NoFault THEN last.did.fault ELSE DuplicateKeyError

\* The message each database-backed handler puts in its 500 response
GenericMessage(route) ==
    CASE route = "projects" -> "Error retrieving data"
      [] route = "projects/[projectId]" -> "Error retrieving project data"
      [] route = "sendForm" -> "Error adding data "
      [] route = "test" -> "Error retrieving data"

C15_Theorem ==
    [][/\ forms' # forms =>
            /\ Len(forms') = Len(forms) + 1
            /\ SubSeq(forms', 1, Len(forms)) = forms
            /\ last'.req.path = FormPath
            /\ last'.req.method = "POST"
            /\ last'.resp = Resp(201, "object", "Form submitted successfully", "", <<>>)
            /\ BagCardinality(pending') = BagCardinality(pending) - 1
       /\ (BagCardinality(pending') < BagCardinality(pending) /\ last'.resp.status = 201) =>
            /\ forms' # forms
            /\ last'.req.path = FormPath
            /\ last'.req.method = "POST"]_vars

C15_Witness ==
    /\ Len(forms) = 2
    /\ forms[1]._id # forms[2]._id
    /\ FormPosted
    /\ last.resp.status = 500
    /\ last.did.fault = NoFault

\* C16: in every document of forms, name, email and message are non-empty strings;
\* a body whose required fields are truthy values of another type is not persisted.
C16_Claim ==
    \A i \in 1..Len(forms) :
        \A k \in RequiredFields :
            /\ forms[i][k].kind = "string"
            /\ forms[i][k].s # ""

\* A GET /projects/{projectId} exchange that met no connection or query failure
ByIdAnswered(x) ==
    /\ x.handler = "GET"
    /\ Route(x.req.path) = "projects/[projectId]"
    /\ x.did.fault = NoFault

\* C17: no step of any handler on any endpoint under any method changes the
\* projects collection; and a GET /projects/{projectId} that repeats the request
\* answered just before it gets the same status and body (connection and query
\* failures aside).
C17_Theorem ==
    [][/\ projects' = projects
       /\ (ByIdAnswered(last) /\ ByIdAnswered(last') /\ last'.req = last.req) =>
              last'.resp = last.resp]_vars

C17_Witness ==
    /\ ByIdAnswered(last)
    /\ last.resp.status = 200
    /\ BagIn(last.req, pending)
    /\ Len(forms) > 0
    /\ projects = SubSeq(Seed, 1, MaxProjects)

\* C18: every valid submission is accepted on its own: a body carrying name, email
\* and message is answered 201 whenever the connection and the insert call meet no
\* outage, also when the same body was submitted and stored before; nothing
\* already in forms can make it fail.
C18_Claim ==
    (/\ FormPosted
     /\ last.did.awaited
     /\ last.did.fault = NoFault
     /\ last.req.body \in {ValidBody, LoadedBody}) =>
        /\ last.resp.status = 201
        /\ \E i \in 1..Len(forms) : \A k \in RequiredFields : forms[i][k] = last.req.body.obj[k]

C20_Theorem ==
    getProjects = "done" =>
        /\ loading = FALSE
        /\ cards = IF /\ response.outcome = "resolved"
                      /\ response.resp.status \in 200..299
                      /\ response.resp.json = "array"
                   THEN response.resp.items
                   ELSE ProjectsInfo

C20_Witness ==
    /\ getProjects = "done"
    /\ response.outcome = "resolved"
    /\ response.resp.status = 200
    /\ response.resp.json = "object"
    /\ cards = ProjectsInfo
    /\ ~loading

\* C21: every invocation of a handler, on every input and every outcome of the
\* connection and the database call, ends in a JSON response whose status is one of
\* 200, 201, 400, 404, 405, 500: no thrown value leaves a handler.
C21_Theorem ==
    last.handler \notin {"", "none"} =>
        /\ last.resp # NoResponse
        /\ last.resp.status \in {200, 201, 400, 404, 405, 500}
        /\ last.resp.json \in {"object", "array", "string"}

C21_Witness ==
    /\ FormPosted
    /\ last.req.body.kind = "null"
    /\ last.resp.status = 500
    /\ last.resp.error = NullTypeError.message

\* The one export a request goes to: the path selects the module, then the method
\* selects the export; the fallback module takes every method
ExpectedHandler(req) ==
    IF req.path = FormPath
    THEN IF req.method = "POST" THEN "POST" ELSE "unsupportedMethodHandler"
    ELSE IF req.path \in ReadPaths
    THEN IF req.method = "GET" THEN "GET" ELSE "unsupportedMethodHandler"
    ELSE "catchAll." \o req.method

\* C22: in a process whose connection module loads, every request is answered by
\* exactly one handler, chosen by its path first and its method second; the
\* response is that handler's own (a database-backed handler never answers with the
\* 405 or the fallback's 404, nor the responders with anything else), and a handler
\* issues at most one database call before it responds.
C22_Claim ==
    (last.handler # "" /\ Truthy(env)) =>
        /\ last.handler = ExpectedHandler(last.req)
        /\ last.handler \in {"GET", "POST"} =>
               last.resp \notin {UnsupportedMethodResponse, NoRouteResponse}
        /\ last.handler = "unsupportedMethodHandler" => last.resp = UnsupportedMethodResponse
        /\ last.handler \in {"catchAll." \o m : m \in Methods} => last.resp = NoRouteResponse
        /\ last.did.dbOps <= 1
        /\ last.did.dbOps = 1 => last.handler \in {"GET", "POST"}

\* C23: once the one connection attempt has failed it stays failed and connect() is
\* not called again; every request that awaits the connection from then on (the
\* list, the by-id lookup, the diagnostic, a valid form submission) is answered 500
\* without a database call; and a request whose database call fails is answered 500
\* after that one call.
C23_Theorem ==
    [][/\ clientPromise = "rejected" =>
            /\ clientPromise' = "rejected"
            /\ connectCalls' = connectCalls
            /\ BagCardinality(pending') < BagCardinality(pending) =>
                   /\ last'.handler \in {"GET", "POST"}
                   /\ last'.resp.status = 500
                   /\ last'.resp.error = ConnectError.message
                   /\ last'.did.dbOps = 0
                   /\ forms' = forms
       /\ connectCalls' <= 1
       /\ (last' # last /\ last'.did.observed = "fulfilled" /\ last'.did.fault # NoFault) =>
            /\ last'.resp.status = 500
            /\ last'.did.dbOps = 1]_vars

C23_Witness ==
    /\ clientPromise = "rejected"
    /\ connectCalls = 1
    /\ FormPosted
    /\ last.req.body = ValidBody
    /\ last.did.observed = "rejected"
    /\ last.resp.status = 500
    /\ pending # EmptyBag

\* C24: POST /sendForm checks the content type, then parses the body, then checks the
\* required fields, and only then awaits the connection: a request that fails one
\* of the three checks gets the 400 of the first check it fails, whatever the state
\* of the connection, without having awaited it and without a database call.
C24_Claim ==
    FormPosted =>
        LET wrongType == last.req.contentType # JsonContentType
            malformed == last.req.body.kind = "invalid"
            missing == \E k \in RequiredFields : AbsentOrEmpty(last.req.body, k)
        IN (wrongType \/ malformed \/ missing) =>
               /\ last.resp.status = 400
               /\ last.resp.text =
                      IF wrongType THEN "Invalid Content-Type. Expected application/json."
                      ELSE IF malformed THEN "Invalid JSON format."
                      ELSE "Missing required fields: name, email, message."
               /\ last.did.parsed = ~wrongType
               /\ ~last.did.awaited
               /\ last.did.dbOps = 0

\* C25: POST /sendForm answers 400 'Invalid JSON format.' exactly when the request
\* body did not parse; a value thrown by the connection or the insert, of whatever
\* class, is never answered that way.
C25_Claim ==
    FormPosted =>
        ((last.resp.status = 400 /\ last.resp.text = "Invalid JSON format.")
            <=> (last.req.contentType = JsonContentType /\ last.req.body.kind = "invalid"))

\* C26: when a handleSubmit call ends after its POST /sendForm failed (the fetch
\* rejected or the response was not a success), the success message is empty, the
\* form-level error is a non-empty message and name, email and message are as they
\* were; the fields are reset and the success message is set only when the call ends
\* after a successful response.
C26_Claim ==
    [][BagCardinality(submitting') < BagCardinality(submitting) =>
         IF submitted'.outcome = "resolved" /\ submitted'.resp.status \in 200..299
         THEN /\ successMessage' # ""
              /\ formData' = EmptyFormData
         ELSE /\ successMessage' = ""
              /\ errors'.form.kind = "string"
              /\ errors'.form.s # ""
              /\ formData' = formData]_vars

\* C27: in the contact form, whatever the order of change, blur and submit events and
\* whatever the requests settle to, the success message and the form-level error are
\* never both set, and while the success message is set the three fields are empty.
C27_Claim ==
    /\ ~(successMessage # "" /\ errors.form # Str(""))
    /\ successMessage # "" => formData = EmptyFormData


\* C28: each time a getProjectInfo call of the detail page ends, loading is off and the
\* page holds the project the API returned if the API answered with success; if the fetch
\* failed or the answer was not a success it holds the static project whose id is the
\* lower-cased projectId, and null ('Project not found') exactly when the static list has
\* none. That fallback equals an exact, case-sensitive match of the projectId, the match
\* the server makes, when the projectId is lower case, and differs from it when the
\* projectId is not lower case and a static project is shown.
C28_Theorem ==
    [][ BagCardinality(fetching') < BagCardinality(fetching) =>
          LET id == pageFetched'.projectId
              fetched == pageFetched'.fetched
              success == /\ fetched.outcome = "resolved"
                         /\ Ok(fetched.resp)
                         /\ fetched.resp.items # <<>>
              failure == fetched.outcome = "rejected" \/ ~Ok(fetched.resp)
              statics == {i \in 1..Len(ProjectsInfo) : ProjectsInfo[i].id.s = Lower(id)}
          IN /\ pageLoading' = FALSE
             /\ success => pageProject' = fetched.resp.items
             /\ failure =>
                  /\ pageProject' = <<>> <=> statics = {}
                  /\ pageProject' # <<>> =>
                       \E i \in statics : pageProject' = << ProjectsInfo[i] >>
                  /\ id = Lower(id) => pageProject' = FindOneById(ProjectsInfo, id)
                  /\ (id # Lower(id) /\ pageProject' # <<>>) =>
                       pageProject' # FindOneById(ProjectsInfo, id)
      ]_vars

\* C28 witness: the server answered 404 for "Portfolio", which it matches exactly, and the
\* page shows the static project "portfolio"
C28_Witness ==
    /\ pageFetched.projectId = "Portfolio"
    /\ pageFetched.fetched.outcome = "resolved"
    /\ pageFetched.fetched.resp.status = 404
    /\ ~pageLoading
    /\ pageProject = << ProjectsInfo[1] >>

\* C29: once no getProjectInfo call is in flight, the project on the page is the one for
\* the current projectId, and loading is off only when the call started for the current
\* projectId has ended.
C29_Claim ==
    /\ (fetching = EmptyBag /\ pageProject # <<>>) =>
          Lower(pageProject[1].id.s) = Lower(params)
    /\ ~pageLoading => ~(\E call \in BagToSet(fetching) : call.latest)

============================================================================
